---- MODULE Spec2Model ----
(***************************************************************************)
(* Model of the DHT sensor read pipeline of gpio-sensors (src/dht.rs):     *)
(* DhtSensor::new_common, read_until, read, read_raw and the DhtValue      *)
(* decoders.  Durations are in milliseconds.  An Instant is opaque: the    *)
(* code only ever uses self.last_read in `Instant::now() - self.last_read`,*)
(* so the model keeps that difference (elapsed) instead of the two         *)
(* instants.  Arrays keep the 0-based indices of the source.               *)
(***************************************************************************)
EXTENDS Integers, Sequences, FiniteSets, TLC

VARIABLES
    dht_type,   \* DhtSensor.dht_type
    value,      \* DhtSensor.value: [u8; 5]
    elapsed,    \* Instant::now() - DhtSensor.last_read (ms)
    value_src,  \* where DhtSensor.value comes from: "init", or a transaction
                \* that passed all 83 buckets ("complete") or not ("partial")
    gpio,       \* the pin as GpioPinRppal drives it: mode and last written level
                \* ("unset" before the first write, "low", "high")
    passed,     \* how long the last step took (ms)
    calls,      \* number of public calls made so far
    pc,         \* "idle", "until" while read_until is in its for loop, "panicked"
    ru,         \* locals of the running / last read_until call
    tx,         \* what the last read() call did
    result,     \* what the last public call returned
    probe       \* one physical transaction taken alone: its input, the cycle
                \* counts, the decoded payload and the verdict of the checksum

vars == <<dht_type, value, elapsed, value_src, gpio, passed, calls, pc, ru, tx, result,
          probe>>

----------------------------------------------------------------------------
(* Program constants *)

MINIMUM_CACHE == 1250
CACHE_ON_ERROR == 5
INITIAL_AGE_SECS == 1000
READ_LIMIT_MS == 10
START_HIGH_MS == 250
START_LOW_MS == 20
RETRY_SLEEP_MS == 150
CYCLES_LEN == 83
DATA_BITS == 40
TIMEOUT_CHECK_EVERY == 7000
U8 == 256

Secs(n) == n * 1000

DhtTypes == {"DHT11", "DHT21", "DHT22"}

\* [u8; 5] from its five bytes
Bytes(a, b, c, d, e) == [j \in 0..4 |-> CASE j = 0 -> a [] j = 1 -> b [] j = 2 -> c
                                          [] j = 3 -> d [] OTHER -> e]

ZeroData == [j \in 0..4 |-> 0]
ZeroCycles == [j \in 0..(CYCLES_LEN - 1) |-> 0]

\* Instant::now() - self.last_read after d more ms.  It starts at 1000 s and the
\* code compares it with durations of at most 255 s (cache_sec is a u8), so
\* everything beyond 1000 s is kept as 1000 s.
Later(e, d) == IF e + d > Secs(INITIAL_AGE_SECS) THEN Secs(INITIAL_AGE_SECS) ELSE e + d

----------------------------------------------------------------------------
(* Bounds of the model and the inputs drawn from them *)

\* the caller makes at most this many calls
MaxCalls == 3
\* the caller does not wait on once the last accepted reading is this old (ms)
MaxTime == 6000
\* samples per protocol time unit of 10us in the slow and the fast sampling loop
SlowUnit == 1
FastUnit == 20
\* samples per unit of a loop in between, when a transaction is taken alone
MidUnit == 7
\* number of cycle counts overwritten with arbitrary ones before decoding again
MaxEdits == 2

\* how long thread::sleep may overrun the requested duration (ms)
SleepOvershoot == {0}
\* how long the caller may stay idle between two calls (ms): up to the 1250 ms
\* bound of read(), up to the 5 s bound once a 273 ms transaction has followed,
\* and beyond it
Delays == {1250, 4727, 5000}
\* arguments the caller passes to read_until
AttemptsSet == {0, 1, 2, 255}
CacheSecs == {0, 2, 255}

----------------------------------------------------------------------------
(* The data line as the sensor drives it once the pin is an input: a run of *)
(* pulses (level, number of samples the loop sees of it) and the level the  *)
(* line keeps afterwards.                                                    *)

Pulse(level, n) == [level |-> level, n |-> n]

\* bit j (0..39) of a payload, most significant bit of byte 0 first
PayloadBit(P, j) == (P[j \div 8] \div (2 ^ (7 - (j % 8)))) % 2

\* The sensor answers with the first nbits bits of P: the line stays high 3
\* units, the response is 8 units low and 8 units high, each bit is 5 units low
\* and then 3 (a 0) or 7 (a 1) units high; after all 40 bits comes the closing
\* low pulse; then the pull-up keeps the line high.  u samples per unit.
Waveform(P, nbits, u) ==
    LET len == 3 + 2 * nbits + (IF nbits = DATA_BITS THEN 1 ELSE 0)
    IN [ pulses |->
           [ k \in 1..len |->
               IF k = 1 THEN Pulse(TRUE, 3 * u)
               ELSE IF k = 2 THEN Pulse(FALSE, 8 * u)
               ELSE IF k = 3 THEN Pulse(TRUE, 8 * u)
               ELSE IF k > 3 + 2 * nbits THEN Pulse(FALSE, 5 * u)
               ELSE IF k % 2 = 0 THEN Pulse(FALSE, 5 * u)
               ELSE Pulse(TRUE, IF PayloadBit(P, (k - 5) \div 2) = 1
                                THEN 7 * u ELSE 3 * u) ],
         tail |-> TRUE ]

\* a line that never changes level (no sensor, or a shorted line)
Stuck(level) == [pulses |-> << >>, tail |-> level]

Level(line, k) == IF k <= Len(line.pulses) THEN line.pulses[k].level ELSE line.tail

----------------------------------------------------------------------------
(* read_raw: the capture loop, the decoding and the checksum *)

\* Instant::now() at the x-th sample of a capture that started at e.start
NowAt(e, x) == e.start + (x \div e.rate)

\* x % 7000 == 0 && Instant::now() > read_limit
DeadlineHit(e, x) == x % TIMEOUT_CHECK_EVERY = 0 /\ NowAt(e, x) > e.read_limit

\* a loop body that also counts the sample on which the level changed, in the
\* bucket it moves to
capture_step_counting(e, c) ==
    IF c.done THEN c
    ELSE
      LET inPulse == c.k <= Len(e.line.pulses)
          v       == Level(e.line, c.k)
          same    == (c.i % 2 = 0) = v
          toCheck == TIMEOUT_CHECK_EVERY - (c.x % TIMEOUT_CHECK_EVERY)
          n       == IF same
                     THEN (IF inPulse /\ c.rem < toCheck THEN c.rem ELSE toCheck)
                     ELSE 1
          i2      == IF same THEN c.i ELSE c.i + 1
          cyc     == IF i2 < CYCLES_LEN THEN [c.cycles EXCEPT ![i2] = @ + n]
                     ELSE c.cycles
          x2      == c.x + n
          ended   == inPulse /\ c.rem = n
          k2      == IF ended THEN c.k + 1 ELSE c.k
          rem2    == IF ~inPulse THEN 0
                     ELSE IF ~ended THEN c.rem - n
                     ELSE IF c.k + 1 <= Len(e.line.pulses)
                          THEN e.line.pulses[c.k + 1].n ELSE 0
          err     == DeadlineHit(e, x2)
      IN [ i |-> i2, x |-> x2, cycles |-> cyc, k |-> k2, rem |-> rem2,
           err |-> err, done |-> err \/ ~(i2 < CYCLES_LEN) ]

\* One pass of the body of `while i < 83 { ... }` over a run of samples that fall
\* in the same bucket (up to the end of the pulse the line is in, c.k / c.rem, or
\* to the next deadline check), or over the one sample that moves to the next
\* bucket.  c.done: the loop has left (i = 83, or break).
capture_step(e, c) ==
    IF c.done THEN c
    ELSE
      LET inPulse == c.k <= Len(e.line.pulses)
          v       == Level(e.line, c.k)
          same    == (c.i % 2 = 0) = v
          toCheck == TIMEOUT_CHECK_EVERY - (c.x % TIMEOUT_CHECK_EVERY)
          n       == IF same
                     THEN (IF inPulse /\ c.rem < toCheck THEN c.rem ELSE toCheck)
                     ELSE 1
          cyc     == IF same THEN [c.cycles EXCEPT ![c.i] = @ + n] ELSE c.cycles
          i2      == IF same THEN c.i ELSE c.i + 1
          x2      == c.x + n
          ended   == inPulse /\ c.rem = n
          k2      == IF ended THEN c.k + 1 ELSE c.k
          rem2    == IF ~inPulse THEN 0
                     ELSE IF ~ended THEN c.rem - n
                     ELSE IF c.k + 1 <= Len(e.line.pulses)
                          THEN e.line.pulses[c.k + 1].n ELSE 0
          err     == DeadlineHit(e, x2)
      IN [ i |-> i2, x |-> x2, cycles |-> cyc, k |-> k2, rem |-> rem2,
           err |-> err, done |-> err \/ ~(i2 < CYCLES_LEN) ]

\* n passes of the loop body (split in halves; each half is computed before the
\* next starts from its result)
RECURSIVE capture_steps(_, _, _)
capture_steps(e, c, n) ==
    IF n = 0 THEN c
    ELSE IF n = 1 THEN capture_step(e, c)
    ELSE CHOOSE r \in { capture_steps(e, m, n - (n \div 2))
                        : m \in { capture_steps(e, c, n \div 2) } } : TRUE

\* the loop, run until it leaves
RECURSIVE capture_loop(_, _, _)
capture_loop(e, c, n) ==
    CHOOSE r \in { IF c2.done THEN c2 ELSE capture_loop(e, c2, 2 * n)
                   : c2 \in { capture_steps(e, c, n) } } : TRUE

\* for i in 0..40 { data[i / 8] <<= 1; if high_cycle > low_cycle { data[i / 8] |= 1 } }:
\* data[b] after the iterations i = 8b .. 8b + j - 1, which are the ones that
\* touch it
RECURSIVE decode_byte(_, _, _)
decode_byte(cycles, b, j) ==
    IF j = 0 THEN 0
    ELSE LET i          == 8 * b + (j - 1)
             low_cycle  == cycles[2 * i + 3]
             high_cycle == cycles[2 * i + 4]
             shifted    == (decode_byte(cycles, b, j - 1) * 2) % U8
         IN IF high_cycle > low_cycle THEN shifted + 1 ELSE shifted

\* a decoding that fills the payload from its last byte
decode_bits_reversed(cycles) ==
    [b \in 0..((DATA_BITS \div 8) - 1) |-> decode_byte(cycles, 4 - b, 8)]

decode_bits(cycles) == [b \in 0..((DATA_BITS \div 8) - 1) |-> decode_byte(cycles, b, 8)]

\* a verification that adds the four bytes without the & 0xFF
checksum_no_wrap(data) == data[4] = data[0] + data[1] + data[2] + data[3]

\* a verification that accepts every decoded payload
checksum_skipped(data) == data[4] \in 0..(U8 - 1)

\* data[4] == (data[0] + data[1] + data[2] + data[3]) & 0xFF
checksum_ok(data) == data[4] = (data[0] + data[1] + data[2] + data[3]) % U8

\* DhtSensor::read_raw up to the checksum test, with every Instant counted from
\* the Instant::now() of the call: input inp = [line, rate, over]
raw_transaction(inp) ==
    LET read_limit == READ_LIMIT_MS
        t_low      == START_HIGH_MS + inp.over
        end_sleep  == t_low + START_LOW_MS
        first      == IF Len(inp.line.pulses) > 0 THEN inp.line.pulses[1].n ELSE 0
        checked(cap, data) ==
            [ took      |-> end_sleep + (cap.x \div inp.rate),
              ok        |-> checksum_ok(data),
              data      |-> data,
              cycles    |-> cap.cycles,
              timed_out |-> cap.err,
              i         |-> cap.i,
              samples   |-> cap.x,
              low_hold  |-> end_sleep - t_low,
              ops       |-> << "direction_output", "set_low", "direction_input", "read" >> ]
        decoded(cap) == checked(cap, decode_bits(cap.cycles))
    IN decoded(capture_loop(
                 [line |-> inp.line, start |-> end_sleep, rate |-> inp.rate,
                  read_limit |-> read_limit],
                 [i |-> 0, x |-> 0, cycles |-> ZeroCycles, k |-> 1, rem |-> first,
                  err |-> FALSE, done |-> FALSE],
                 CYCLES_LEN))

----------------------------------------------------------------------------
(* Inputs *)

GoodPayloads == { Bytes(2, 140, 1, 5, 148), Bytes(45, 0, 23, 0, 68),
                  Bytes(2, 140, 129, 5, 20) }
BadPayloads  == { Bytes(2, 140, 1, 5, 149) }
\* number of bits after which a sensor may stop answering
TruncBits == {16}

SamplesPerMs(u) == 100 * u

LinesAt(u) ==
    { Stuck(TRUE), Stuck(FALSE) }
    \cup { Waveform(P, DATA_BITS, u) : P \in GoodPayloads \cup BadPayloads }
    \cup { Waveform(P, k, u) : P \in GoodPayloads, k \in TruncBits }

Inputs ==
    UNION { [ line : LinesAt(u), rate : {SamplesPerMs(u)}, over : SleepOvershoot ]
            : u \in {SlowUnit, FastUnit} }

\* raw_transaction of every input, tabulated once
RawTable == [inp \in Inputs |-> raw_transaction(inp)] @@ << >>

\* DhtSensor::read_raw on sensor state s = [value, elapsed, value_src]:
\* the transaction t, then `self.value = data; self.last_read = Instant::now()`
\* and Ok when the checksum matches, Err(InvalidData) when it does not
raw_result(s, t) ==
    [ value     |-> IF t.ok THEN t.data ELSE s.value,
      elapsed   |-> IF t.ok THEN 0 ELSE Later(s.elapsed, t.took),
      value_src |-> IF t.ok THEN (IF t.i = CYCLES_LEN THEN "complete" ELSE "partial")
                    ELSE s.value_src,
      took      |-> t.took,
      kind      |-> IF t.ok THEN "Ok" ELSE "Err",
      err       |-> IF t.ok THEN "none" ELSE "InvalidData",
      ret       |-> IF t.ok THEN t.data ELSE ZeroData,
      timed_out |-> t.timed_out,
      i         |-> t.i,
      samples   |-> t.samples,
      data      |-> t.data,
      low_hold  |-> t.low_hold,
      ops       |-> t.ops ]

read_raw(s, inp) == raw_result(s, RawTable[inp])

\* a fast cache that still answers at exactly MINIMUM_CACHE
read_is_cached_inclusive(e) == e <= MINIMUM_CACHE

\* Instant::now() - self.last_read < Duration::from_millis(MINIMUM_CACHE)
read_is_cached(e) == e < MINIMUM_CACHE

\* a fallback that gives up at exactly CACHE_ON_ERROR
fallback_allowed_exclusive(cached_for) == cached_for < Secs(CACHE_ON_ERROR)

\* a fallback window of CACHE_ON_ERROR minutes
fallback_allowed_minutes(cached_for) == cached_for <= Secs(60 * CACHE_ON_ERROR)

\* a fallback that never expires
fallback_allowed_forever(cached_for) == cached_for >= 0

\* cached_for <= Duration::from_secs(CACHE_ON_ERROR)
fallback_allowed(cached_for) == cached_for <= Secs(CACHE_ON_ERROR)

\* a cache window taken in milliseconds instead of seconds
until_is_cached_millis(e, cache_sec) == e < cache_sec

\* Instant::now() - self.last_read < Duration::from_secs(cache_sec as u64)
until_is_cached(e, cache_sec) == e < Secs(cache_sec)

\* DhtSensor::read, lines 149-155: the value kept from the last accepted transaction
read_cached(s) ==
    [ path |-> "cache", raws |-> 0, age_at_call |-> s.elapsed, took |-> 0,
      kind |-> "Ok", err |-> "none", ret |-> s.value, ret_src |-> s.value_src,
      value |-> s.value, elapsed |-> s.elapsed, value_src |-> s.value_src,
      timed_out |-> FALSE, i |-> 0, samples |-> 0, data |-> ZeroData,
      low_hold |-> 0, ops |-> << >>, raw_kind |-> "none", cached_for |-> 0 ]

\* DhtSensor::read, lines 158-173: what read() makes of raw_value = self.read_raw()
read_handle(s, raw_value) ==
    LET cached_for == raw_value.elapsed
        did == [ raws |-> 1, age_at_call |-> s.elapsed, took |-> raw_value.took,
                 value |-> raw_value.value, elapsed |-> raw_value.elapsed,
                 value_src |-> raw_value.value_src,
                 timed_out |-> raw_value.timed_out, i |-> raw_value.i,
                 samples |-> raw_value.samples, data |-> raw_value.data,
                 low_hold |-> raw_value.low_hold, ops |-> raw_value.ops,
                 raw_kind |-> IF raw_value.kind = "Ok" THEN "Ok" ELSE raw_value.err,
                 cached_for |-> cached_for ]
    IN IF raw_value.kind = "Ok"
       THEN [ path |-> "fresh", kind |-> "Ok", err |-> "none",
              ret |-> raw_value.ret, ret_src |-> raw_value.value_src ] @@ did
       ELSE IF fallback_allowed(cached_for)
       THEN [ path |-> "fallback", kind |-> "Ok", err |-> "none",
              ret |-> raw_value.value, ret_src |-> raw_value.value_src ] @@ did
       ELSE [ path |-> "error", kind |-> "Err", err |-> raw_value.err,
              ret |-> ZeroData, ret_src |-> "none" ] @@ did

\* DhtSensor::read on sensor state s with input inp
read(s, inp) ==
    IF read_is_cached(s.elapsed)
    THEN read_cached(s)
    ELSE read_handle(s, read_raw(s, inp))

----------------------------------------------------------------------------
(* DhtValue *)

\* `DHT11` in `match &self.dht_type { DHT11 => .., _ => .. }` is no path to the
\* variant DhtType::DHT11 (dht.rs imports no variant): it is an identifier
\* pattern, which binds the scrutinee whatever it is.
matches_DHT11(t) == TRUE

\* DhtValue::temperature, in tenths of a degree Celsius
temperature(v) ==
    IF matches_DHT11(v.dht_type) THEN v.value[2] * 10
    ELSE LET m == (v.value[2] % 128) * 256 + v.value[3]
         IN IF (v.value[2] \div 128) % 2 > 0 THEN -m ELSE m

\* DhtValue::humidity, in tenths of a percent
humidity(v) ==
    IF matches_DHT11(v.dht_type) THEN v.value[0] * 10
    ELSE v.value[0] * 256 + v.value[1]

----------------------------------------------------------------------------
(* State machine *)

TxNone == [ path |-> "none", raws |-> 0, age_at_call |-> 0, took |-> 0,
            prev_value |-> ZeroData, prev_elapsed |-> 0,
            timed_out |-> FALSE, i |-> 0, samples |-> 0, data |-> ZeroData,
            low_hold |-> 0, ops |-> << >>, raw_kind |-> "none", cached_for |-> 0,
            kind |-> "none", err |-> "none", ret |-> ZeroData, ret_src |-> "none" ]

\* the record of a read() that returned r
TxOf(r) == [ f \in DOMAIN TxNone |->
               CASE f = "prev_value" -> value
                 [] f = "prev_elapsed" -> elapsed
                 [] OTHER -> r[f] ]

RuNone == [ attempts |-> 0, cache_sec |-> 0, max_attempts |-> 0, i |-> 0,
            res |-> "Other", txs |-> 0, sleeps |-> 0,
            hit |-> FALSE, done |-> FALSE, age_at_call |-> 0,
            last |-> [ failed |-> FALSE, timed_out |-> FALSE, slept |-> FALSE,
                       remaining |-> FALSE ] ]

ResNone == [ op |-> "none", kind |-> "none", err |-> "none", value |-> ZeroData,
             src |-> "none" ]

Sensor == [ value |-> value, elapsed |-> elapsed, value_src |-> value_src ]

\* no transaction is looked at alone
ProbeNone == [ phase |-> "none", inp |-> [line |-> Stuck(TRUE), rate |-> 1, over |-> 0],
               cycles |-> ZeroCycles, data |-> ZeroData, ok |-> FALSE,
               timed_out |-> FALSE, i |-> 0, samples |-> 0, edits |-> 0 ]

\* DhtSensor::new_common
new_common ==
    /\ dht_type \in DhtTypes
    /\ value = ZeroData
    /\ elapsed = Secs(INITIAL_AGE_SECS)
    /\ value_src = "init"
    /\ gpio = [mode |-> "input", level |-> "unset"]
    /\ passed = 0
    /\ calls = 0
    /\ pc = "idle"
    /\ ru = RuNone
    /\ tx = TxNone
    /\ result = ResNone

Init == new_common /\ probe = ProbeNone

\* a transaction that ends with `self.gpio.direction_output(1)`
GpioAfterOutput(r) == IF r.raws > 0 THEN [mode |-> "output", level |-> "high"] ELSE gpio

\* the pin after a read() that returned r
GpioAfter(r) == IF r.raws > 0 THEN [mode |-> "input", level |-> "low"] ELSE gpio

\* number of calls made on the GpioPin by a read() that returned r
GpioCalls(r) == IF r.ops = << >> THEN 0 ELSE (Len(r.ops) - 1) + r.samples

\* the caller takes the result and stays idle for d ms
Tick(d) ==
    /\ pc = "idle"
    /\ elapsed + d <= MaxTime
    /\ elapsed' = Later(elapsed, d)
    /\ passed' = d
    /\ ru' = RuNone
    /\ tx' = TxNone
    /\ result' = ResNone
    /\ UNCHANGED <<dht_type, value, value_src, gpio, calls, pc, probe>>

\* the caller calls read()
Read(inp) ==
    /\ pc = "idle"
    /\ calls < MaxCalls
    /\ calls' = calls + 1
    /\ \E r \in {read(Sensor, inp)} :
          /\ value' = r.value
          /\ elapsed' = r.elapsed
          /\ value_src' = r.value_src
          /\ passed' = r.took
          /\ gpio' = GpioAfter(r)
          /\ tx' = TxOf(r)
          /\ result' = [ op |-> "read", kind |-> r.kind, err |-> r.err,
                         value |-> r.ret, src |-> r.ret_src ]
    /\ ru' = RuNone
    /\ UNCHANGED <<dht_type, pc, probe>>

\* the caller calls read_until(attempts, cache_sec): the cache test and
\* `let max_attempts = 1 + attempts` in u8, which overflows for attempts = 255:
\* a panic in a build with overflow checks, a wrap to 0 in a build without.
ReadUntil(attempts, cache_sec, overflow_checks) ==
    /\ pc = "idle"
    /\ calls < MaxCalls
    /\ calls' = calls + 1
    /\ LET start == [RuNone EXCEPT !.attempts = attempts, !.cache_sec = cache_sec,
                                   !.age_at_call = elapsed]
       IN IF until_is_cached(elapsed, cache_sec)
          THEN /\ result' = [ op |-> "read_until", kind |-> "Ok", err |-> "none",
                              value |-> value, src |-> value_src ]
               /\ ru' = [start EXCEPT !.hit = TRUE, !.done = TRUE]
               /\ pc' = "idle"
          ELSE IF 1 + attempts >= U8 /\ overflow_checks
          THEN /\ result' = [ResNone EXCEPT !.op = "read_until", !.kind = "Panic"]
               /\ ru' = [start EXCEPT !.done = TRUE]
               /\ pc' = "panicked"
          ELSE /\ result' = ResNone
               /\ ru' = [start EXCEPT !.max_attempts = (1 + attempts) % U8]
               /\ pc' = "until"
    /\ tx' = TxNone
    /\ passed' = 0
    /\ UNCHANGED <<dht_type, value, elapsed, value_src, gpio, probe>>

\* one iteration of `for i in 0..max_attempts { match self.read() { .. } }`
ReadUntilStep(inp, over) ==
    /\ pc = "until"
    /\ ru.i < ru.max_attempts
    /\ \E r \in {read(Sensor, inp)} :
       LET more  == ru.i < (ru.max_attempts - 1)
           sleep == r.kind = "Err" /\ r.err = "TimedOut" /\ more
           slept == IF sleep THEN RETRY_SLEEP_MS + over ELSE 0
           seen  == [ru EXCEPT !.txs = @ + r.raws]
       IN /\ value' = r.value
          /\ value_src' = r.value_src
          /\ gpio' = GpioAfter(r)
          /\ tx' = TxOf(r)
          /\ passed' = r.took + slept
          /\ IF r.kind = "Ok"
             THEN /\ result' = [ op |-> "read_until", kind |-> "Ok", err |-> "none",
                                 value |-> r.ret, src |-> r.ret_src ]
                  /\ ru' = [seen EXCEPT !.done = TRUE,
                                        !.last = [ failed |-> FALSE,
                                                   timed_out |-> r.timed_out,
                                                   slept |-> FALSE,
                                                   remaining |-> more ]]
                  /\ elapsed' = r.elapsed
                  /\ pc' = "idle"
             ELSE /\ result' = result
                  /\ ru' = [seen EXCEPT !.i = @ + 1,
                                        !.res = r.err,
                                        !.sleeps = IF sleep THEN @ + 1 ELSE @,
                                        !.last = [ failed |-> TRUE,
                                                   timed_out |-> r.timed_out,
                                                   slept |-> sleep,
                                                   remaining |-> more ]]
                  /\ elapsed' = Later(r.elapsed, slept)
                  /\ pc' = "until"
    /\ UNCHANGED <<dht_type, calls, probe>>

\* a loop that starts over instead of returning once it is exhausted
ReadUntilRestart ==
    /\ pc = "until"
    /\ ~(ru.i < ru.max_attempts)
    /\ ru' = [ru EXCEPT !.i = 0]
    /\ UNCHANGED <<dht_type, value, elapsed, value_src, gpio, passed, calls, pc, tx,
                   result, probe>>

\* the for loop is exhausted: read_until returns res
ReadUntilReturn ==
    /\ pc = "until"
    /\ ~(ru.i < ru.max_attempts)
    /\ result' = [ResNone EXCEPT !.op = "read_until", !.kind = "Err", !.err = ru.res]
    /\ ru' = [ru EXCEPT !.done = TRUE]
    /\ pc' = "idle"
    /\ passed' = 0
    /\ UNCHANGED <<dht_type, value, elapsed, value_src, gpio, calls, tx, probe>>

Next ==
    \/ \E d \in Delays : Tick(d)
    \/ \E inp \in Inputs : Read(inp)
    \/ \E a \in AttemptsSet, c \in CacheSecs, oc \in BOOLEAN : ReadUntil(a, c, oc)
    \/ \E inp \in Inputs, over \in SleepOvershoot : ReadUntilStep(inp, over)
    \/ ReadUntilReturn

Spec == Init /\ [][Next]_vars

\* read_until runs in the caller's thread: once called it goes on, every
\* iteration of its loop ends (read() returns, thread::sleep returns) as long
\* as the clock advances
Fairness ==
    /\ WF_vars(\E inp \in Inputs, over \in SleepOvershoot : ReadUntilStep(inp, over))
    /\ WF_vars(ReadUntilReturn)

LiveSpec == Init /\ [][Next]_vars /\ Fairness

----------------------------------------------------------------------------
(* One physical transaction taken alone: the capture loop on a wider range  *)
(* of lines, and the decoding on cycle counts of any kind                   *)

\* the waveform of payload P with low phases of lo samples and high phases of
\* hi0 samples for a 0 and hi1 samples for a 1
Shaped(P, lo, hi0, hi1) ==
    LET w == Waveform(P, DATA_BITS, 1)
    IN [ pulses |-> [ k \in 1..Len(w.pulses) |->
                        Pulse(w.pulses[k].level,
                              IF k <= 3 THEN w.pulses[k].n
                              ELSE IF k % 2 = 0 THEN lo
                              ELSE IF w.pulses[k].n = 7 THEN hi1 ELSE hi0) ],
         tail |-> TRUE ]

ProbeLines(u) ==
    { Waveform(P, DATA_BITS, u) : P \in GoodPayloads \cup BadPayloads }

ProbeInputs ==
    UNION { [ line : ProbeLines(u), rate : {SamplesPerMs(u)}, over : SleepOvershoot ]
            : u \in {SlowUnit, MidUnit, FastUnit} }
    \cup [ line : { Shaped(P, 2, 1, 3) : P \in GoodPayloads }
                  \cup { Shaped(P, 9, 8, 10) : P \in GoodPayloads }
                  \cup { Stuck(TRUE) }
                  \cup { Waveform(P, k, SlowUnit) : P \in GoodPayloads, k \in TruncBits },
           rate : {SamplesPerMs(SlowUnit)}, over : SleepOvershoot ]

\* raw_transaction of every such input, tabulated once
ProbeTable == [inp \in ProbeInputs |-> raw_transaction(inp)] @@ << >>

\* cycle counts that may be overwritten, and what with
EditBuckets == {0, 2, 3, 4, 82}
EditCounts == {0, 4, 9}

ProbeInit ==
    /\ new_common
    /\ probe \in { [ProbeNone EXCEPT !.phase = "line", !.inp = inp] : inp \in ProbeInputs }

\* read_raw on the line of the probe
Transact ==
    /\ probe.phase = "line"
    /\ \E t \in {ProbeTable[probe.inp]} :
          probe' = [probe EXCEPT !.phase = "decoded", !.cycles = t.cycles,
                                 !.data = t.data, !.ok = t.ok,
                                 !.timed_out = t.timed_out, !.i = t.i,
                                 !.samples = t.samples]
    /\ UNCHANGED <<dht_type, value, elapsed, value_src, gpio, passed, calls, pc, ru,
                   tx, result>>

\* some other capture leaves n in cycles[j]
AnyCycles(j, n) ==
    /\ probe.phase \in {"decoded", "edited"}
    /\ probe.edits < MaxEdits
    /\ probe' = [probe EXCEPT !.phase = "edited", !.cycles[j] = n, !.edits = @ + 1]
    /\ UNCHANGED <<dht_type, value, elapsed, value_src, gpio, passed, calls, pc, ru,
                   tx, result>>

\* lines 292-319 of read_raw on the cycle counts of the probe
Decode ==
    /\ probe.phase = "edited"
    /\ \E data \in {decode_bits(probe.cycles)} :
          probe' = [probe EXCEPT !.phase = "decoded", !.data = data,
                                 !.ok = checksum_ok(data)]
    /\ UNCHANGED <<dht_type, value, elapsed, value_src, gpio, passed, calls, pc, ru,
                   tx, result>>

ProbeNext ==
    \/ Transact
    \/ \E j \in EditBuckets, n \in EditCounts : AnyCycles(j, n)
    \/ Decode

ProbeSpec == ProbeInit /\ [][ProbeNext]_vars

----------------------------------------------------------------------------
(* Properties *)

\* self.last_read was assigned in the step: had it been left alone, the time
\* since it would have grown by the duration of the step
Stamped == elapsed' # Later(elapsed, passed')

\* the last read() ran a physical transaction, which failed
TxFailed == tx.raws = 1 /\ tx.raw_kind # "Ok"

\* Instant::now() - self.last_read when that read() handled the failure
AgeAtFailure == Later(tx.prev_elapsed, tx.took)

\* C1: every Ok reading a public call returns carries a payload produced by a
\* physical transaction that passed all 83 buckets (captured all 40 bits) and
\* the checksum; never the initial payload, never one decoded from an aborted
\* capture.
C1_OkIsGenuine ==
    result.kind = "Ok" => result.src = "complete"

\* C2: whenever the deadline check aborts the capture loop, the transaction
\* returns a TimedOut error, the partial buckets are not decoded into a
\* payload that is stored, and the stored payload and timestamp stay as they were.
C2_TimeoutIsError ==
    (tx.raws = 1 /\ tx.timed_out) =>
        /\ tx.raw_kind = "TimedOut"
        /\ value = tx.prev_value
        /\ elapsed = Later(tx.prev_elapsed, passed)

\* C3: the stored payload always satisfies the checksum; payload and timestamp
\* are only stored together, in the same step, by a physical transaction whose
\* decoded payload is checksum-valid; a call that returns an error or a cached
\* value leaves both unchanged.
C3_StoredTogether ==
    /\ [](value[4] = (value[0] + value[1] + value[2] + value[3]) % 256)
    /\ [][ /\ (value' # value => Stamped)
           /\ (Stamped =>
                 /\ tx'.raws = 1 /\ tx'.raw_kind = "Ok"
                 /\ tx'.data[4] = (tx'.data[0] + tx'.data[1] + tx'.data[2]
                                   + tx'.data[3]) % 256
                 /\ value' = tx'.data
                 /\ elapsed' = 0)
           /\ ( ( \/ result'.kind = "Err"
                  \/ tx'.path \in {"cache", "fallback", "error"}
                  \/ ru'.hit )
                => (value' = value /\ ~Stamped) ) ]_vars

\* a transaction was accepted and replaced the stored payload by another one
C3_Witness ==
    /\ tx.raws = 1 /\ tx.raw_kind = "Ok"
    /\ value = tx.data /\ value # tx.prev_value /\ elapsed = 0

\* C4: for a DHT21 or DHT22 sensor the temperature in tenths of a degree is
\* (payload[2] & 0x7F) * 256 + payload[3], negated when bit 0x80 of payload[2]
\* is set, and the humidity in tenths of a percent is payload[0] * 256 +
\* payload[1]: [0x02,0x8C,0x01,0x05,0x94] is 65.2 % and 26.1 C.
C4_Dht22Decode ==
    (result.kind = "Ok" /\ dht_type \in {"DHT21", "DHT22"}) =>
        LET p == result.value
            v == [dht_type |-> dht_type, value |-> p]
            m == (p[2] % 128) * 256 + p[3]
        IN /\ temperature(v) = (IF p[2] >= 128 THEN -m ELSE m)
           /\ humidity(v) = p[0] * 256 + p[1]

\* C5: a read() called less than 1250 ms after the last accepted transaction
\* returns the stored payload and makes no call on the pin; any other read()
\* runs exactly one physical transaction.
C5_FastCache ==
    tx.path # "none" =>
        IF tx.prev_elapsed < 1250
        THEN /\ tx.kind = "Ok" /\ tx.ret = tx.prev_value
             /\ tx.raws = 0 /\ tx.ops = << >> /\ tx.samples = 0 /\ tx.took = 0
             /\ value = tx.prev_value
        ELSE /\ tx.raws = 1
             /\ tx.ops = << "direction_output", "set_low", "direction_input", "read" >>
             /\ tx.samples > 0

\* a read() was answered from the cache
C5_Witness ==
    tx.path = "cache" /\ result.op = "read" /\ result.kind = "Ok" /\ tx.prev_elapsed < 1250

\* C6: when the physical transaction of a read() fails and the last accepted
\* transaction is then no more than 5 s old, read() returns Ok with the stored
\* payload of that transaction.
C6_Fallback ==
    (TxFailed /\ AgeAtFailure <= 5000) =>
        /\ tx.kind = "Ok" /\ tx.ret = tx.prev_value /\ value = tx.prev_value
        /\ (result.op = "read" => (result.kind = "Ok" /\ result.value = tx.prev_value))

\* a read() fell back on a payload accepted exactly 5 s before
C6_Witness ==
    TxFailed /\ AgeAtFailure = 5000 /\ tx.path = "fallback" /\ result.kind = "Ok"

C8_UntilCache ==
    /\ (result.op = "read_until" /\ ru.age_at_call < ru.cache_sec * 1000) =>
           /\ ru.hit /\ ru.done /\ pc = "idle"
           /\ result.kind = "Ok" /\ result.value = value
           /\ tx = TxNone /\ ru.txs = 0 /\ ru.sleeps = 0 /\ passed = 0
    /\ (value_src = "init" => ~ru.hit)

\* read_until(255, cache_sec) was answered from the cache
C8_Witness ==
    /\ result.op = "read_until" /\ ru.hit /\ ru.attempts = 255
    /\ ru.age_at_call < ru.cache_sec * 1000 /\ value_src # "init"

\* C9: a read_until(attempts, cache_sec) that misses its cache and returns an
\* error has run exactly 1 + attempts physical transactions, at least one.
C9_AttemptBudget ==
    (result.op = "read_until" /\ result.kind = "Err") =>
        (ru.txs = 1 + ru.attempts /\ ru.txs >= 1)

\* C10: after a failed attempt read_until sleeps if and only if the attempt
\* timed out and another attempt remains.
C10_SleepOnTimeout ==
    ru.last.failed => (ru.last.slept <=> (ru.last.timed_out /\ ru.last.remaining))

\* C11: read_until returns the result of the first attempt that succeeds and
\* runs no transaction after it; when it returns an error, at least one attempt
\* was made and the error is the one the last attempt produced, never the
\* placeholder the result variable starts with.
C11_FirstSuccessLastError ==
    (result.op = "read_until" /\ ru.done /\ ~ru.hit /\ result.kind # "Panic") =>
        /\ pc = "idle"
        /\ IF result.kind = "Ok"
           THEN tx.kind = "Ok" /\ result.value = tx.ret /\ ru.txs <= ru.i + 1
           ELSE /\ ru.txs >= 1
                /\ tx.kind = "Err" /\ result.err = tx.err
                /\ result.err # "Other"

\* C12: a physical transaction that passed all 83 buckets is accepted if and
\* only if byte 4 of the decoded payload is the sum of bytes 0..3 modulo 256;
\* with any other byte 4 it is rejected as InvalidData and nothing is stored.
C12_ChecksumDecides ==
    (tx.raws = 1 /\ tx.i = 83) =>
        LET sum == (tx.data[0] + tx.data[1] + tx.data[2] + tx.data[3]) % 256
        IN /\ (tx.raw_kind = "Ok" <=> tx.data[4] = sum)
           /\ (tx.data[4] # sum =>
                 /\ tx.raw_kind = "InvalidData"
                 /\ value = tx.prev_value
                 /\ elapsed >= Later(tx.prev_elapsed, tx.took))
           /\ (tx.data[4] = sum => (value = tx.data /\ tx.path = "fresh"))

\* a complete capture was accepted with a byte sum above 255
C12_Witness ==
    /\ tx.raws = 1 /\ tx.i = 83 /\ tx.raw_kind = "Ok"
    /\ tx.data[0] + tx.data[1] + tx.data[2] + tx.data[3] > 255

\* C13: a read() that directly follows a read() which returned Ok, less than
\* 1250 ms after it was called, returns the same payload and runs no physical
\* transaction.
C13_Idempotent ==
    [][ ( /\ result.op = "read" /\ result.kind = "Ok" /\ passed < 1250
          /\ result'.op = "read" /\ calls' = calls + 1 )
        => ( /\ tx'.raws = 0
             /\ result'.kind = "Ok"
             /\ result'.value = result.value ) ]_vars

RECURSIVE PulseSamples(_, _, _)
PulseSamples(line, a, b) ==
    IF a > b THEN 0
    ELSE IF a = b THEN line.pulses[a].n
    ELSE PulseSamples(line, a, (a + b) \div 2) + PulseSamples(line, ((a + b) \div 2) + 1, b)

\* the line changes level 83 times, the last time within ms milliseconds of
\* sampling at inp.rate: a capture loop left alone passes all 83 buckets in
\* that time
CompletesWithin(inp, ms) ==
    /\ Len(inp.line.pulses) > 83
    /\ PulseSamples(inp.line, 1, 83) + 1 <= ms * inp.rate

\* C14: a transaction whose capture loop can pass all 83 buckets within 10 ms
\* of the moment the pin is made an input is never aborted by the deadline
\* check: the 250 ms and 20 ms of the start signal do not count.
C14_DeadlineFromRelease ==
    (probe.phase = "decoded" /\ probe.edits = 0 /\ CompletesWithin(probe.inp, 10)) =>
        (~probe.timed_out /\ probe.i = 83)

\* C15: of a complete waveform whose capture is not aborted, the low phase of
\* bit i is counted in bucket 2i+3 and its high phase in bucket 2i+4 (each less
\* the sample that moved the loop to the bucket), and the decoded payload has
\* bit i set exactly when the high phase is the longer one; a waveform of a
\* checksum-valid payload is accepted.
C15_WaveformDecodes ==
    ( /\ probe.phase = "decoded" /\ probe.edits = 0
      /\ Len(probe.inp.line.pulses) > 83 /\ ~probe.timed_out ) =>
        LET w == probe.inp.line.pulses
            bit(i) == (probe.data[i \div 8] \div (2 ^ (7 - (i % 8)))) % 2
        IN /\ probe.i = 83
           /\ \A i \in 0..39 :
                 /\ probe.cycles[2 * i + 3] = w[2 * i + 4].n - 1
                 /\ probe.cycles[2 * i + 4] = w[2 * i + 5].n - 1
                 /\ (bit(i) = 1 <=> w[2 * i + 5].n > w[2 * i + 4].n)
           /\ probe.ok = (probe.data[4] = (probe.data[0] + probe.data[1]
                                           + probe.data[2] + probe.data[3]) % 256)
           /\ (probe.data \in GoodPayloads => probe.ok)
           /\ probe.data \in GoodPayloads \cup BadPayloads

\* a waveform with low phases of 2 samples and high phases of 1 and 3 samples
\* was accepted
C15_Witness ==
    /\ probe.phase = "decoded" /\ probe.edits = 0 /\ ~probe.timed_out
    /\ Len(probe.inp.line.pulses) > 83 /\ probe.inp.line.pulses[4].n = 2
    /\ probe.ok /\ probe.data = Bytes(2, 140, 129, 5, 20)

\* C16: decoding sets bit i of the payload (bit 7 - i % 8 of byte i / 8) to 1
\* exactly when cycles[2i+4] > cycles[2i+3], to 0 when they are equal or the
\* other way round; cycles[0..2] play no part.
C16_DecodeBits ==
    probe.phase = "decoded" =>
        \A i \in 0..39 :
            LET b == (probe.data[i \div 8] \div (2 ^ (7 - (i % 8)))) % 2
            IN /\ probe.data[i \div 8] \in 0..255
               /\ b = (IF probe.cycles[2 * i + 4] > probe.cycles[2 * i + 3] THEN 1 ELSE 0)

\* cycle counts with an overwritten bucket 0 and equal counts for bit 0 were
\* decoded, bit 0 as a 0
C16_Witness ==
    /\ probe.phase = "decoded" /\ probe.edits = 2
    /\ probe.cycles[0] = 9
    /\ probe.cycles[4] = probe.cycles[3] /\ probe.cycles[3] > 0
    /\ probe.data[0] < 128

====
